---- MODULE Spec2Model ----
(***************************************************************************)
(* Recipe Explorer API (src/recipe_app_backend/src/api/main.py).           *)
(*                                                                         *)
(* The module import builds the catalog (RECIPES, RECIPES_BY_ID) from the  *)
(* eleven seed recipes, each with an id from uuid.uuid4(); afterwards the  *)
(* three request handlers health_check, list_recipes and get_recipe read   *)
(* it.  Every handler is one action.                                       *)
(*                                                                         *)
(* Text the program inspects (titles, tags, the search term; descriptions  *)
(* for comparison) is a sequence of one-character strings, so that         *)
(* str.lower() and the substring test `in` are computed character by       *)
(* character.  Text the program only carries (image_url, ingredients,      *)
(* steps, ids) is a TLA+ string; a character outside ASCII is written as   *)
(* its \uXXXX escape.                                                      *)
(*                                                                         *)
(* Three specifications:                                                   *)
(*   Spec       import, then any sequence of requests;                     *)
(*   WalkSpec   import, then a client that reads a listing page by page;   *)
(*   MatchSpec  _match_query alone, on bounded recipes and terms.          *)
(***************************************************************************)
EXTENDS Integers, Sequences, FiniteSets, TLC

VARIABLES
  phase,          \* how far the module import has come: "seed", "index", "serving"
  uuid_stream,    \* the values uuid.uuid4() returns, in call order
  uuid_calls,     \* how many of them have been drawn
  seed,           \* _seed_recipes' local list, as far as it is built
  RECIPES,        \* the module global of line 328
  RECIPES_BY_ID,  \* the module global of line 329
  request,        \* the request last handled
  response,       \* its response
  matcher_calls,  \* how many times that request invoked _match_query
  walk,           \* the page-by-page client of WalkSpec
  m_recipe,       \* MatchSpec: the recipe given to _match_query
  m_term,         \* MatchSpec: the term given to _match_query
  m_result        \* MatchSpec: what _match_query returned, once called

vars == <<phase, uuid_stream, uuid_calls, seed, RECIPES, RECIPES_BY_ID,
          request, response, matcher_calls, walk, m_recipe, m_term, m_result>>

catalog_vars == <<phase, uuid_stream, uuid_calls, seed, RECIPES, RECIPES_BY_ID>>
serve_vars == <<request, response, matcher_calls>>
match_vars == <<m_recipe, m_term, m_result>>

-----------------------------------------------------------------------------
(* Bounds of the model. *)

\* list_recipes is asked for pages 1..MaxPage and for page FarPage.
MaxPage == 3
FarPage == 1000000

\* MatchSpec: the longest title, term and tag it draws.
MaxTitleLen == 2
MaxTermLen == 2
MaxTagLen == 1

-----------------------------------------------------------------------------
(* Python values. *)

\* Optional[T]: None, or a value.
None == [is_none |-> TRUE, value |-> <<>>]

Some(v) == [is_none |-> FALSE, value |-> v]

\* bool(q) of an Optional[str], the test of `if q:`: None and "" are falsy.
Truthy(q) == ~q.is_none /\ Len(q.value) > 0

\* The Greek sigmas: capital U+03A3, small U+03C3 and small final U+03C2.
CapitalSigma == "\\u03a3"
SmallSigma == "\\u03c3"
FinalSigma == "\\u03c2"

\* The letters A-Z and what str.lower() makes of each.
ToLower ==
  ("A" :> "a") @@ ("B" :> "b") @@ ("C" :> "c") @@ ("D" :> "d") @@ ("E" :> "e") @@
  ("F" :> "f") @@ ("G" :> "g") @@ ("H" :> "h") @@ ("I" :> "i") @@ ("J" :> "j") @@
  ("K" :> "k") @@ ("L" :> "l") @@ ("M" :> "m") @@ ("N" :> "n") @@ ("O" :> "o") @@
  ("P" :> "p") @@ ("Q" :> "q") @@ ("R" :> "r") @@ ("S" :> "s") @@ ("T" :> "t") @@
  ("U" :> "u") @@ ("V" :> "v") @@ ("W" :> "w") @@ ("X" :> "x") @@ ("Y" :> "y") @@
  ("Z" :> "z")

\* Cased: the character is a letter in upper or lower case.
is_cased(c) ==
  \/ c \in DOMAIN ToLower
  \/ \E u \in DOMAIN ToLower : ToLower[u] = c
  \/ c \in {CapitalSigma, SmallSigma, FinalSigma}

\* Case_Ignorable: the scan for a final sigma skips these.  The ASCII members
\* are the apostrophe, the full stop, the colon, the circumflex and the grave
\* accent; the last cannot be written in a string here and occurs in no text
\* of the model.
is_case_ignorable(c) == c \in {"'", ".", ":", "^"}

\* What str.lower() makes of the capital sigma at s[i]: the final form when a
\* cased letter comes before it (case-ignorable characters skipped) and none
\* comes after it (likewise), else the small sigma.
handle_capital_sigma(s, i) ==
  LET before == {j \in 1..(i - 1) : ~is_case_ignorable(s[j])}
      after == {j \in (i + 1)..Len(s) : ~is_case_ignorable(s[j])}
      last_before == CHOOSE j \in before : \A k \in before : k <= j
      first_after == CHOOSE j \in after : \A k \in after : j <= k
  IN  IF /\ before # {}
         /\ is_cased(s[last_before])
         /\ (after = {} \/ ~is_cased(s[first_after]))
      THEN FinalSigma
      ELSE SmallSigma

\* str.lower() on the characters of the model: A-Z by the table, the capital
\* sigma by its place in the string, every other character unchanged.
lower(s) ==
  [i \in 1..Len(s) |->
     IF s[i] = CapitalSigma THEN handle_capital_sigma(s, i)
     ELSE IF s[i] \in DOMAIN ToLower THEN ToLower[s[i]]
     ELSE s[i]]

\* `t in s` for two strings: t occurs in s as a contiguous run ("" in s is True).
str_in(t, s) == \E i \in 0..(Len(s) - Len(t)) : SubSeq(s, i + 1, i + Len(t)) = t

\* One bound of a slice, as list.__getitem__ adjusts it to a list of length n.
slice_index(i, n) == IF i < 0 THEN (IF i + n < 0 THEN 0 ELSE i + n) ELSE (IF i > n THEN n ELSE i)

\* items[start:end]: never an error; empty when start is at or past the end.
slice(items, start, end) ==
  LET lo == slice_index(start, Len(items))
      hi == slice_index(end, Len(items))
  IN  IF hi <= lo THEN <<>> ELSE SubSeq(items, lo + 1, hi)

\* {key(x): x for x in xs} keyed by id: a later entry replaces an earlier one.
dict_by_id(xs) ==
  [i \in {xs[k].id : k \in DOMAIN xs} |->
     xs[CHOOSE k \in DOMAIN xs : xs[k].id = i /\ \A j \in DOMAIN xs : xs[j].id = i => j <= k]]

\* dict.get(key): the value, or None.
dict_get(d, key) == IF key \in DOMAIN d THEN Some(d[key]) ELSE None

-----------------------------------------------------------------------------
(* The seed data of _seed_recipes, lines 87-324, without the ids. *)

\* src lines 88-110: "Classic Margherita Pizza"
\* description: "A simple pizza topped with fresh tomatoes, mozzarella, and basil."
\* tags: italian, vegetarian, pizza, quick
Seed01 ==
  [ title |-> <<"C","l","a","s","s","i","c"," ","M","a","r","g","h","e","r","i","t","a"," ","P","i","z","z","a">>,
    description |-> <<"A"," ","s","i","m","p","l","e"," ","p","i","z","z","a"," ","t","o","p","p","e","d"," ","w","i","t","h"," ","f","r","e","s","h"," ","t","o","m","a","t","o","e","s",","," ","m","o","z","z","a","r","e","l","l","a",","," ","a","n","d"," ","b","a","s","i","l",".">>,
    image_url |-> "https://images.unsplash.com/photo-1548365328-8b0b1a07e2fd?q=80&w=1200&auto=format&fit=crop",
    ingredients |-> <<
      [name |-> "Pizza dough", quantity |-> "1 ball"],
      [name |-> "Tomato sauce", quantity |-> "1/2 cup"],
      [name |-> "Fresh mozzarella", quantity |-> "8 oz"],
      [name |-> "Fresh basil leaves", quantity |-> "Handful"],
      [name |-> "Olive oil", quantity |-> "1 tbsp"]
    >>,
    steps |-> <<
      "Preheat oven to 500\\u00b0F (260\\u00b0C).",
      "Stretch the dough on a floured surface.",
      "Spread tomato sauce, add mozzarella slices, drizzle olive oil.",
      "Bake 8\\u201310 minutes until crust is crisp.",
      "Top with basil and serve hot."
    >>,
    total_time_minutes |-> 25,
    servings |-> 2,
    tags |-> <<<<"i","t","a","l","i","a","n">>, <<"v","e","g","e","t","a","r","i","a","n">>, <<"p","i","z","z","a">>, <<"q","u","i","c","k">>>> ]

\* src lines 111-133: "Spicy Thai Basil Chicken"
\* description: "Savory and spicy stir-fried chicken with Thai basil."
\* tags: thai, spicy, stir-fry, chicken, quick
Seed02 ==
  [ title |-> <<"S","p","i","c","y"," ","T","h","a","i"," ","B","a","s","i","l"," ","C","h","i","c","k","e","n">>,
    description |-> <<"S","a","v","o","r","y"," ","a","n","d"," ","s","p","i","c","y"," ","s","t","i","r","-","f","r","i","e","d"," ","c","h","i","c","k","e","n"," ","w","i","t","h"," ","T","h","a","i"," ","b","a","s","i","l",".">>,
    image_url |-> "https://images.unsplash.com/photo-1604908554063-f3eccb6b4b91?q=80&w=1200&auto=format&fit=crop",
    ingredients |-> <<
      [name |-> "Chicken thighs", quantity |-> "1 lb, chopped"],
      [name |-> "Garlic", quantity |-> "4 cloves, minced"],
      [name |-> "Red chilies", quantity |-> "2, sliced"],
      [name |-> "Oyster sauce", quantity |-> "2 tbsp"],
      [name |-> "Fish sauce", quantity |-> "1 tbsp"],
      [name |-> "Thai basil", quantity |-> "1 cup"]
    >>,
    steps |-> <<
      "Heat oil in a wok over high heat.",
      "Stir-fry garlic and chilies until fragrant.",
      "Add chicken and cook through.",
      "Stir in sauces and basil just before serving."
    >>,
    total_time_minutes |-> 20,
    servings |-> 3,
    tags |-> <<<<"t","h","a","i">>, <<"s","p","i","c","y">>, <<"s","t","i","r","-","f","r","y">>, <<"c","h","i","c","k","e","n">>, <<"q","u","i","c","k">>>> ]

\* src lines 134-157: "Blueberry Lemon Muffins"
\* description: "Moist muffins bursting with blueberries and bright lemon zest."
\* tags: baking, dessert, blueberry, breakfast
Seed03 ==
  [ title |-> <<"B","l","u","e","b","e","r","r","y"," ","L","e","m","o","n"," ","M","u","f","f","i","n","s">>,
    description |-> <<"M","o","i","s","t"," ","m","u","f","f","i","n","s"," ","b","u","r","s","t","i","n","g"," ","w","i","t","h"," ","b","l","u","e","b","e","r","r","i","e","s"," ","a","n","d"," ","b","r","i","g","h","t"," ","l","e","m","o","n"," ","z","e","s","t",".">>,
    image_url |-> "https://images.unsplash.com/photo-1519681393784-d120267933ba?q=80&w=1200&auto=format&fit=crop",
    ingredients |-> <<
      [name |-> "All-purpose flour", quantity |-> "2 cups"],
      [name |-> "Sugar", quantity |-> "3/4 cup"],
      [name |-> "Baking powder", quantity |-> "2 tsp"],
      [name |-> "Milk", quantity |-> "3/4 cup"],
      [name |-> "Egg", quantity |-> "1"],
      [name |-> "Blueberries", quantity |-> "1 1/2 cups"],
      [name |-> "Lemon zest", quantity |-> "1 tbsp"]
    >>,
    steps |-> <<
      "Preheat oven to 375\\u00b0F (190\\u00b0C).",
      "Whisk dry ingredients; combine wet ingredients.",
      "Fold wet into dry, add blueberries and lemon zest.",
      "Fill muffin tin and bake 18\\u201322 minutes."
    >>,
    total_time_minutes |-> 35,
    servings |-> 12,
    tags |-> <<<<"b","a","k","i","n","g">>, <<"d","e","s","s","e","r","t">>, <<"b","l","u","e","b","e","r","r","y">>, <<"b","r","e","a","k","f","a","s","t">>>> ]

\* src lines 158-179: "Creamy Tomato Basil Soup"
\* description: "Comforting soup made with tomatoes, cream, and fresh basil."
\* tags: soup, vegetarian, comfort
Seed04 ==
  [ title |-> <<"C","r","e","a","m","y"," ","T","o","m","a","t","o"," ","B","a","s","i","l"," ","S","o","u","p">>,
    description |-> <<"C","o","m","f","o","r","t","i","n","g"," ","s","o","u","p"," ","m","a","d","e"," ","w","i","t","h"," ","t","o","m","a","t","o","e","s",","," ","c","r","e","a","m",","," ","a","n","d"," ","f","r","e","s","h"," ","b","a","s","i","l",".">>,
    image_url |-> "https://images.unsplash.com/photo-1551183053-bf91a1d81141?q=80&w=1200&auto=format&fit=crop",
    ingredients |-> <<
      [name |-> "Canned tomatoes", quantity |-> "28 oz"],
      [name |-> "Onion", quantity |-> "1, chopped"],
      [name |-> "Garlic", quantity |-> "3 cloves"],
      [name |-> "Heavy cream", quantity |-> "1/2 cup"],
      [name |-> "Fresh basil", quantity |-> "1/2 cup"]
    >>,
    steps |-> <<
      "Saut\\u00e9 onion and garlic until soft.",
      "Add tomatoes and simmer 15 minutes.",
      "Blend smooth, stir in cream and basil.",
      "Season and serve warm."
    >>,
    total_time_minutes |-> 30,
    servings |-> 4,
    tags |-> <<<<"s","o","u","p">>, <<"v","e","g","e","t","a","r","i","a","n">>, <<"c","o","m","f","o","r","t">>>> ]

\* src lines 180-199: "Grilled Salmon with Lemon Dill"
\* description: "Flaky salmon fillets grilled with fresh lemon and dill."
\* tags: seafood, healthy, gluten-free
Seed05 ==
  [ title |-> <<"G","r","i","l","l","e","d"," ","S","a","l","m","o","n"," ","w","i","t","h"," ","L","e","m","o","n"," ","D","i","l","l">>,
    description |-> <<"F","l","a","k","y"," ","s","a","l","m","o","n"," ","f","i","l","l","e","t","s"," ","g","r","i","l","l","e","d"," ","w","i","t","h"," ","f","r","e","s","h"," ","l","e","m","o","n"," ","a","n","d"," ","d","i","l","l",".">>,
    image_url |-> "https://images.unsplash.com/photo-1617191518005-c13b39d3f5d3?q=80&w=1200&auto=format&fit=crop",
    ingredients |-> <<
      [name |-> "Salmon fillets", quantity |-> "4"],
      [name |-> "Lemon", quantity |-> "1, sliced"],
      [name |-> "Fresh dill", quantity |-> "2 tbsp"],
      [name |-> "Olive oil", quantity |-> "1 tbsp"]
    >>,
    steps |-> <<
      "Preheat grill to medium-high.",
      "Brush salmon with oil, season, top with lemon and dill.",
      "Grill 4\\u20135 minutes per side."
    >>,
    total_time_minutes |-> 18,
    servings |-> 4,
    tags |-> <<<<"s","e","a","f","o","o","d">>, <<"h","e","a","l","t","h","y">>, <<"g","l","u","t","e","n","-","f","r","e","e">>>> ]

\* src lines 200-220: "Veggie Buddha Bowl"
\* description: "Nourishing bowl with roasted veggies, grains, and tahini dressing."
\* tags: vegan, bowl, healthy, gluten-free
Seed06 ==
  [ title |-> <<"V","e","g","g","i","e"," ","B","u","d","d","h","a"," ","B","o","w","l">>,
    description |-> <<"N","o","u","r","i","s","h","i","n","g"," ","b","o","w","l"," ","w","i","t","h"," ","r","o","a","s","t","e","d"," ","v","e","g","g","i","e","s",","," ","g","r","a","i","n","s",","," ","a","n","d"," ","t","a","h","i","n","i"," ","d","r","e","s","s","i","n","g",".">>,
    image_url |-> "https://images.unsplash.com/photo-1512621776951-a57141f2eefd?q=80&w=1200&auto=format&fit=crop",
    ingredients |-> <<
      [name |-> "Quinoa", quantity |-> "1 cup"],
      [name |-> "Sweet potato", quantity |-> "1, cubed"],
      [name |-> "Chickpeas", quantity |-> "1 can, drained"],
      [name |-> "Spinach", quantity |-> "2 cups"],
      [name |-> "Tahini", quantity |-> "2 tbsp"]
    >>,
    steps |-> <<
      "Roast sweet potato and chickpeas at 400\\u00b0F (205\\u00b0C) until crisp.",
      "Cook quinoa per package.",
      "Assemble with spinach and drizzle tahini dressing."
    >>,
    total_time_minutes |-> 35,
    servings |-> 2,
    tags |-> <<<<"v","e","g","a","n">>, <<"b","o","w","l">>, <<"h","e","a","l","t","h","y">>, <<"g","l","u","t","e","n","-","f","r","e","e">>>> ]

\* src lines 221-241: "Garlic Butter Shrimp Pasta"
\* description: "Rich and garlicky shrimp tossed with al dente pasta."
\* tags: pasta, seafood, comfort
Seed07 ==
  [ title |-> <<"G","a","r","l","i","c"," ","B","u","t","t","e","r"," ","S","h","r","i","m","p"," ","P","a","s","t","a">>,
    description |-> <<"R","i","c","h"," ","a","n","d"," ","g","a","r","l","i","c","k","y"," ","s","h","r","i","m","p"," ","t","o","s","s","e","d"," ","w","i","t","h"," ","a","l"," ","d","e","n","t","e"," ","p","a","s","t","a",".">>,
    image_url |-> "https://images.unsplash.com/photo-1473093295043-cdd812d0e601?q=80&w=1200&auto=format&fit=crop",
    ingredients |-> <<
      [name |-> "Spaghetti", quantity |-> "12 oz"],
      [name |-> "Shrimp", quantity |-> "1 lb, peeled"],
      [name |-> "Butter", quantity |-> "4 tbsp"],
      [name |-> "Garlic", quantity |-> "4 cloves, minced"],
      [name |-> "Parsley", quantity |-> "2 tbsp"]
    >>,
    steps |-> <<
      "Cook pasta until al dente.",
      "Saut\\u00e9 garlic in butter, add shrimp and cook until pink.",
      "Toss with pasta and parsley; season to taste."
    >>,
    total_time_minutes |-> 25,
    servings |-> 4,
    tags |-> <<<<"p","a","s","t","a">>, <<"s","e","a","f","o","o","d">>, <<"c","o","m","f","o","r","t">>>> ]

\* src lines 242-262: "Hearty Beef Chili"
\* description: "Slow-simmered chili with beans and spices."
\* tags: beef, stew, spicy, comfort
Seed08 ==
  [ title |-> <<"H","e","a","r","t","y"," ","B","e","e","f"," ","C","h","i","l","i">>,
    description |-> <<"S","l","o","w","-","s","i","m","m","e","r","e","d"," ","c","h","i","l","i"," ","w","i","t","h"," ","b","e","a","n","s"," ","a","n","d"," ","s","p","i","c","e","s",".">>,
    image_url |-> "https://images.unsplash.com/photo-1481931715705-36f6e3a82b5b?q=80&w=1200&auto=format&fit=crop",
    ingredients |-> <<
      [name |-> "Ground beef", quantity |-> "1 lb"],
      [name |-> "Kidney beans", quantity |-> "1 can"],
      [name |-> "Tomato sauce", quantity |-> "1 can"],
      [name |-> "Chili powder", quantity |-> "2 tbsp"],
      [name |-> "Onion", quantity |-> "1, diced"]
    >>,
    steps |-> <<
      "Brown beef with onions.",
      "Add beans, sauce, and spices.",
      "Simmer 30\\u201345 minutes, stirring occasionally."
    >>,
    total_time_minutes |-> 60,
    servings |-> 6,
    tags |-> <<<<"b","e","e","f">>, <<"s","t","e","w">>, <<"s","p","i","c","y">>, <<"c","o","m","f","o","r","t">>>> ]

\* src lines 263-282: "Avocado Toast with Poached Egg"
\* description: "Simple and delicious breakfast with creamy avocado and a runny egg."
\* tags: breakfast, quick, vegetarian
Seed09 ==
  [ title |-> <<"A","v","o","c","a","d","o"," ","T","o","a","s","t"," ","w","i","t","h"," ","P","o","a","c","h","e","d"," ","E","g","g">>,
    description |-> <<"S","i","m","p","l","e"," ","a","n","d"," ","d","e","l","i","c","i","o","u","s"," ","b","r","e","a","k","f","a","s","t"," ","w","i","t","h"," ","c","r","e","a","m","y"," ","a","v","o","c","a","d","o"," ","a","n","d"," ","a"," ","r","u","n","n","y"," ","e","g","g",".">>,
    image_url |-> "https://images.unsplash.com/photo-1525351484163-7529414344d8?q=80&w=1200&auto=format&fit=crop",
    ingredients |-> <<
      [name |-> "Sourdough bread", quantity |-> "2 slices"],
      [name |-> "Avocado", quantity |-> "1, mashed"],
      [name |-> "Eggs", quantity |-> "2, poached"],
      [name |-> "Chili flakes", quantity |-> "Pinch"]
    >>,
    steps |-> <<
      "Toast bread and spread with mashed avocado.",
      "Top with poached eggs and chili flakes.",
      "Season with salt and pepper."
    >>,
    total_time_minutes |-> 10,
    servings |-> 1,
    tags |-> <<<<"b","r","e","a","k","f","a","s","t">>, <<"q","u","i","c","k">>, <<"v","e","g","e","t","a","r","i","a","n">>>> ]

\* src lines 283-302: "Mango Coconut Chia Pudding"
\* description: "Tropical chia pudding with mango puree and coconut milk."
\* tags: dessert, vegan, tropical, no-bake
Seed10 ==
  [ title |-> <<"M","a","n","g","o"," ","C","o","c","o","n","u","t"," ","C","h","i","a"," ","P","u","d","d","i","n","g">>,
    description |-> <<"T","r","o","p","i","c","a","l"," ","c","h","i","a"," ","p","u","d","d","i","n","g"," ","w","i","t","h"," ","m","a","n","g","o"," ","p","u","r","e","e"," ","a","n","d"," ","c","o","c","o","n","u","t"," ","m","i","l","k",".">>,
    image_url |-> "https://images.unsplash.com/photo-1511914265872-c40672604a66?q=80&w=1200&auto=format&fit=crop",
    ingredients |-> <<
      [name |-> "Chia seeds", quantity |-> "1/4 cup"],
      [name |-> "Coconut milk", quantity |-> "1 cup"],
      [name |-> "Mango", quantity |-> "1, pureed"],
      [name |-> "Honey", quantity |-> "1 tbsp"]
    >>,
    steps |-> <<
      "Mix chia seeds with coconut milk and honey.",
      "Chill for 2 hours until set.",
      "Top with mango puree and serve."
    >>,
    total_time_minutes |-> 10,
    servings |-> 2,
    tags |-> <<<<"d","e","s","s","e","r","t">>, <<"v","e","g","a","n">>, <<"t","r","o","p","i","c","a","l">>, <<"n","o","-","b","a","k","e">>>> ]

\* src lines 303-323: "Roasted Herb Chicken"
\* description: "Juicy whole roasted chicken with fragrant herbs."
\* tags: chicken, roast, family
Seed11 ==
  [ title |-> <<"R","o","a","s","t","e","d"," ","H","e","r","b"," ","C","h","i","c","k","e","n">>,
    description |-> <<"J","u","i","c","y"," ","w","h","o","l","e"," ","r","o","a","s","t","e","d"," ","c","h","i","c","k","e","n"," ","w","i","t","h"," ","f","r","a","g","r","a","n","t"," ","h","e","r","b","s",".">>,
    image_url |-> "https://images.unsplash.com/photo-1544025162-d76694265947?q=80&w=1200&auto=format&fit=crop",
    ingredients |-> <<
      [name |-> "Whole chicken", quantity |-> "1"],
      [name |-> "Butter", quantity |-> "3 tbsp"],
      [name |-> "Mixed herbs", quantity |-> "2 tbsp"],
      [name |-> "Lemon", quantity |-> "1"]
    >>,
    steps |-> <<
      "Preheat oven to 425\\u00b0F (220\\u00b0C).",
      "Rub chicken with butter and herbs.",
      "Roast 60\\u201375 minutes until internal temp is 165\\u00b0F (74\\u00b0C).",
      "Rest before carving."
    >>,
    total_time_minutes |-> 90,
    servings |-> 6,
    tags |-> <<<<"c","h","i","c","k","e","n">>, <<"r","o","a","s","t">>, <<"f","a","m","i","l","y">>>> ]

\* The seed list in source order.
SEED == <<Seed01, Seed02, Seed03, Seed04, Seed05, Seed06, Seed07, Seed08, Seed09, Seed10, Seed11>>

NumSeed == Len(SEED)

\* Recipe(**r): the model object of one seed dict, r's id included.
Recipe(id, r) ==
  [ id |-> id, title |-> r.title, description |-> r.description,
    image_url |-> r.image_url, ingredients |-> r.ingredients, steps |-> r.steps,
    total_time_minutes |-> r.total_time_minutes, servings |-> r.servings,
    tags |-> r.tags ]

-----------------------------------------------------------------------------
(* uuid.uuid4().  Its values are random 122-bit numbers; the library's     *)
(* contract, on which the program relies without checking, is that no two  *)
(* calls return the same one.  The model draws the run's values as one of  *)
(* a few streams without repetition over a pool of twelve.                 *)

Uuids ==
  << "00000000-0000-4000-8000-000000000001", "00000000-0000-4000-8000-000000000002",
     "00000000-0000-4000-8000-000000000003", "00000000-0000-4000-8000-000000000004",
     "00000000-0000-4000-8000-000000000005", "00000000-0000-4000-8000-000000000006",
     "00000000-0000-4000-8000-000000000007", "00000000-0000-4000-8000-000000000008",
     "00000000-0000-4000-8000-000000000009", "00000000-0000-4000-8000-00000000000a",
     "00000000-0000-4000-8000-00000000000b", "00000000-0000-4000-8000-00000000000c" >>

\* In order, in reverse order, and the even places before the odd ones.
UuidStreams ==
  { Uuids,
    [i \in 1..Len(Uuids) |-> Uuids[Len(Uuids) + 1 - i]],
    [i \in 1..Len(Uuids) |-> Uuids[IF 2 * i <= Len(Uuids) THEN 2 * i ELSE 2 * i - Len(Uuids) - 1]] }

\* A variant of _mk_id that hands out one id again and again.
_mk_id_same(stream, calls) == stream[1]

\* _mk_id(): str(uuid.uuid4()), the next value of the stream.
_mk_id(stream, calls) == stream[calls + 1]

-----------------------------------------------------------------------------
(* The module import, lines 85-329. *)

CatalogInit ==
  /\ phase = "seed"
  /\ uuid_stream \in UuidStreams
  /\ uuid_calls = 0
  /\ seed = <<>>
  /\ RECIPES = <<>>
  /\ RECIPES_BY_ID = <<>>

ServeInit ==
  /\ request = [op |-> "none"]
  /\ response = [status_code |-> 0]
  /\ matcher_calls = 0

WalkIdle == [state |-> "idle", q |-> None, page_size |-> 0, page |-> 0, items |-> <<>>, count |-> 0]

MatchIdle == [called |-> FALSE, value |-> FALSE]

Init ==
  /\ CatalogInit
  /\ ServeInit
  /\ walk = WalkIdle
  /\ m_recipe = [title |-> <<>>, tags |-> <<>>]
  /\ m_term = <<>>
  /\ m_result = MatchIdle

\* One dict(id=_mk_id(), ...) of the seed list: the next entry, with a new id.
seed_entry ==
  /\ phase = "seed"
  /\ Len(seed) < NumSeed
  /\ seed' = Append(seed, Recipe(_mk_id(uuid_stream, uuid_calls), SEED[Len(seed) + 1]))
  /\ uuid_calls' = uuid_calls + 1
  /\ UNCHANGED <<phase, uuid_stream, RECIPES, RECIPES_BY_ID>>
  /\ UNCHANGED <<serve_vars, walk, match_vars>>

\* return [Recipe(**r) for r in seed], assigned to RECIPES (lines 325, 328).
_seed_recipes ==
  /\ phase = "seed"
  /\ Len(seed) = NumSeed
  /\ RECIPES' = seed
  /\ seed' = <<>>
  /\ phase' = "index"
  /\ UNCHANGED <<uuid_stream, uuid_calls, RECIPES_BY_ID>>
  /\ UNCHANGED <<serve_vars, walk, match_vars>>

\* RECIPES_BY_ID = {r.id: r for r in RECIPES} (line 329); the import is over.
index_recipes ==
  /\ phase = "index"
  /\ RECIPES_BY_ID' = dict_by_id(RECIPES)
  /\ phase' = "serving"
  /\ UNCHANGED <<uuid_stream, uuid_calls, seed, RECIPES>>
  /\ UNCHANGED <<serve_vars, walk, match_vars>>

-----------------------------------------------------------------------------
(* Search and pagination, lines 332-394. *)

\* A variant of _match_query that also searches the description.
_match_query_description(recipe, q) ==
  LET ql == lower(q)
  IN  \/ str_in(ql, lower(recipe.title))
      \/ str_in(ql, lower(recipe.description))
      \/ \E k \in 1..Len(recipe.tags) : str_in(ql, lower(recipe.tags[k]))

\* _match_query(recipe, q): the lowered term occurs in the lowered title, or
\* in some lowered tag (the loop returns at the first tag that holds it).
_match_query(recipe, q) ==
  LET ql == lower(q)
  IN  IF str_in(ql, lower(recipe.title))
      THEN TRUE
      ELSE \E k \in 1..Len(recipe.tags) : str_in(ql, lower(recipe.tags[k]))

\* A variant of the `if q:` test that filters whenever q is given, "" included.
filters_given(q) == ~q.is_none

\* `if q:` (line 381): the listing is filtered when q is neither None nor "".
filters(q) == Truthy(q)

\* items of lines 380-382: RECIPES, or its recipes that match q, in order.
filter_recipes(recipes, q) ==
  IF filters(q)
  THEN SelectSeq(recipes, LAMBDA r : _match_query(r, q.value))
  ELSE recipes

\* How often lines 380-382 call _match_query: once per recipe when filtering.
filter_calls(recipes, q) == IF filters(q) THEN Len(recipes) ELSE 0

\* A variant of the page computation that starts one page too far.
paginate_skip_first(items, page, page_size) == slice(items, page * page_size, page * page_size + page_size)

\* A variant of the page computation that shows the last item on a page past the end.
paginate_clamp_last(items, page, page_size) ==
  IF (page - 1) * page_size >= Len(items) /\ Len(items) > 0
  THEN <<items[Len(items)]>>
  ELSE slice(items, (page - 1) * page_size, (page - 1) * page_size + page_size)

\* A variant of the page computation whose pages overlap by one item.
paginate_overlap(items, page, page_size) ==
  slice(items, (page - 1) * page_size, (page - 1) * page_size + page_size + 1)

\* paginated of lines 385-387.
paginate(items, page, page_size) ==
  LET start == (page - 1) * page_size
      end == start + page_size
  IN  slice(items, start, end)

\* The bounds of the Query declarations, lines 367-368.
PageMin == 1
PageSizeMin == 1
PageSizeMax == 100

\* Query(ge=1) and Query(ge=1, le=100): what the framework lets through.
valid_query(page, page_size) ==
  page >= PageMin /\ page_size >= PageSizeMin /\ page_size <= PageSizeMax

\* The response of list_recipes on a catalog: 422 from the framework when a
\* parameter is out of range, else PaginatedRecipesResponse (lines 380-394).
list_recipes_response(recipes, q, page, page_size) ==
  IF ~valid_query(page, page_size)
  THEN [status_code |-> 422, body |-> [detail |-> "validation error"]]
  ELSE LET items == filter_recipes(recipes, q)
       IN  [status_code |-> 200,
            body |-> [items |-> paginate(items, page, page_size),
                      total |-> Len(items),
                      page |-> page,
                      page_size |-> page_size]]

\* A variant of list_recipes that filters RECIPES in place.
list_recipes_in_place(q, page, page_size) ==
  /\ phase = "serving"
  /\ request' = [op |-> "list", q |-> q, page |-> page, page_size |-> page_size]
  /\ response' = list_recipes_response(RECIPES, q, page, page_size)
  /\ matcher_calls' = IF valid_query(page, page_size) THEN filter_calls(RECIPES, q) ELSE 0
  /\ RECIPES' = IF valid_query(page, page_size) THEN filter_recipes(RECIPES, q) ELSE RECIPES
  /\ UNCHANGED <<phase, uuid_stream, uuid_calls, seed, RECIPES_BY_ID>>
  /\ UNCHANGED <<walk, match_vars>>

\* GET /recipes: list_recipes(q, page, page_size), lines 365-394.
list_recipes(q, page, page_size) ==
  /\ phase = "serving"
  /\ request' = [op |-> "list", q |-> q, page |-> page, page_size |-> page_size]
  /\ response' = list_recipes_response(RECIPES, q, page, page_size)
  /\ matcher_calls' = IF valid_query(page, page_size) THEN filter_calls(RECIPES, q) ELSE 0
  /\ UNCHANGED catalog_vars
  /\ UNCHANGED <<walk, match_vars>>

\* GET /health: health_check(), lines 349-355.
health_check ==
  /\ phase = "serving"
  /\ request' = [op |-> "health"]
  /\ response' = [status_code |-> 200, body |-> [status |-> "ok"]]
  /\ matcher_calls' = 0
  /\ UNCHANGED catalog_vars
  /\ UNCHANGED <<walk, match_vars>>

\* A variant of get_recipe's lookup that falls back to the first recipe.
lookup_or_first(by_id, recipes, recipe_id) ==
  IF recipe_id \in DOMAIN by_id THEN Some(by_id[recipe_id])
  ELSE IF Len(recipes) > 0 THEN Some(recipes[1]) ELSE None

\* A variant of get_recipe's lookup that scans RECIPES and keeps the recipe
\* before the one whose id matches.
lookup_off_by_one(by_id, recipes, recipe_id) ==
  IF \E k \in DOMAIN recipes : recipes[k].id = recipe_id
  THEN LET k == CHOOSE k \in DOMAIN recipes : recipes[k].id = recipe_id
       IN  Some(recipes[IF k = 1 THEN Len(recipes) ELSE k - 1])
  ELSE None

\* RECIPES_BY_ID.get(recipe_id), line 416.
lookup(by_id, recipes, recipe_id) == dict_get(by_id, recipe_id)

\* GET /recipes/{recipe_id}: get_recipe(recipe_id), lines 404-419.
get_recipe(recipe_id) ==
  /\ phase = "serving"
  /\ request' = [op |-> "get", recipe_id |-> recipe_id]
  /\ LET recipe == lookup(RECIPES_BY_ID, RECIPES, recipe_id)
     IN  response' = IF recipe.is_none
                     THEN [status_code |-> 404, body |-> [detail |-> "Recipe not found"]]
                     ELSE [status_code |-> 200, body |-> recipe.value]
  /\ matcher_calls' = 0
  /\ UNCHANGED catalog_vars
  /\ UNCHANGED <<walk, match_vars>>

-----------------------------------------------------------------------------
(* The requests the model sends. *)

\* "chicken", "BaSiL", "quick", "e", "risotto", and "a" with a capital sigma
TermChicken == <<"c","h","i","c","k","e","n">>
TermBasil == <<"B","a","S","i","L">>
TermQuick == <<"q","u","i","c","k">>
TermE == <<"e">>
TermRisotto == <<"r","i","s","o","t","t","o">>
TermSigma == <<"a", CapitalSigma>>

\* q: absent, empty, or one of the terms.
Terms == {None, Some(<<>>), Some(TermChicken), Some(TermBasil), Some(TermQuick), Some(TermE), Some(TermRisotto),
          Some(TermSigma)}

Pages == (PageMin..MaxPage) \cup {FarPage}

PageSizes == {PageSizeMin, 3, 5, 10, PageSizeMax}

\* Every valid combination, and one request for each bound that is broken.
ListRequests ==
  (Terms \X Pages \X PageSizes)
    \cup {<<None, PageMin - 1, 10>>, <<None, PageMin, PageSizeMin - 1>>, <<None, PageMin, PageSizeMax + 1>>}

\* Every id uuid4 can have returned, the empty string and a string that is no uuid.
RecipeIds == {Uuids[i] : i \in DOMAIN Uuids} \cup {"", "not-a-uuid"}

Next ==
  \/ seed_entry
  \/ _seed_recipes
  \/ index_recipes
  \/ health_check
  \/ \E r \in ListRequests : list_recipes(r[1], r[2], r[3])
  \/ \E id \in RecipeIds : get_recipe(id)

Spec == Init /\ [][Next]_vars

-----------------------------------------------------------------------------
(* WalkSpec: a client reads one listing, GET /recipes?q=..&page=1,2,3,..   *)
(* with one page_size, until a page comes back empty.                      *)

\* The client picks a term and a page size.
walk_start(q, page_size) ==
  /\ phase = "serving"
  /\ walk.state \in {"idle", "done"}
  /\ walk' = [state |-> "reading", q |-> q, page_size |-> page_size, page |-> 0,
              items |-> <<>>, count |-> 0]
  /\ UNCHANGED <<catalog_vars, serve_vars, match_vars>>

\* The client calls list_recipes for the next page and keeps what it returns.
walk_next ==
  /\ phase = "serving"
  /\ walk.state = "reading"
  /\ LET page == walk.page + 1
         r == list_recipes_response(RECIPES, walk.q, page, walk.page_size)
     IN  /\ request' = [op |-> "list", q |-> walk.q, page |-> page, page_size |-> walk.page_size]
         /\ response' = r
         /\ matcher_calls' = filter_calls(RECIPES, walk.q)
         /\ walk' = [walk EXCEPT !.page = page,
                                 !.items = walk.items \o r.body.items,
                                 !.count = walk.count + Len(r.body.items),
                                 !.state = IF r.body.items = <<>> THEN "done" ELSE "reading"]
  /\ UNCHANGED <<catalog_vars, match_vars>>

WalkNext ==
  \/ seed_entry
  \/ _seed_recipes
  \/ index_recipes
  \/ \E q \in Terms, page_size \in PageSizes : walk_start(q, page_size)
  \/ walk_next

WalkSpec == Init /\ [][WalkNext]_vars

-----------------------------------------------------------------------------
(* MatchSpec: _match_query on every recipe and term within the bounds,     *)
(* called once and then called again after one letter of the term, of the  *)
(* title or of a tag has changed case.                                     *)

MatchChars == {"a", "A", "b", CapitalSigma}

\* Every string of at most n characters.
Strings(n) == UNION {[1..k -> MatchChars] : k \in 0..n}

\* No tag, or one.
MatchTagLists == {<<>>} \cup {<<t>> : t \in Strings(MaxTagLen)}

\* The same letter in the other case; a character that is no letter, itself.
other_case(c) ==
  IF c = CapitalSigma THEN SmallSigma
  ELSE IF c \in {SmallSigma, FinalSigma} THEN CapitalSigma
  ELSE IF c \in DOMAIN ToLower THEN ToLower[c]
  ELSE IF \E u \in DOMAIN ToLower : ToLower[u] = c
       THEN CHOOSE u \in DOMAIN ToLower : ToLower[u] = c
       ELSE c

\* No catalog is involved: the import has not begun, whatever uuid4 would return.
MatchInit ==
  /\ CatalogInit
  /\ uuid_stream = Uuids
  /\ ServeInit
  /\ walk = WalkIdle
  /\ m_recipe \in [title : Strings(MaxTitleLen), tags : MatchTagLists]
  /\ m_term \in Strings(MaxTermLen)
  /\ m_result = MatchIdle

\* _match_query(m_recipe, m_term)
match_call ==
  /\ ~m_result.called
  /\ m_result' = [called |-> TRUE, value |-> _match_query(m_recipe, m_term)]
  /\ UNCHANGED <<catalog_vars, serve_vars, walk, m_recipe, m_term>>

\* The same call with the term's i-th character in the other case.
match_respelled_term(i) ==
  /\ m_result.called
  /\ i \in 1..Len(m_term)
  /\ m_term' = [m_term EXCEPT ![i] = other_case(m_term[i])]
  /\ m_result' = [called |-> TRUE, value |-> _match_query(m_recipe, m_term')]
  /\ UNCHANGED <<catalog_vars, serve_vars, walk, m_recipe>>

\* The same call with the title's i-th character in the other case.
match_respelled_title(i) ==
  /\ m_result.called
  /\ i \in 1..Len(m_recipe.title)
  /\ m_recipe' = [m_recipe EXCEPT !.title[i] = other_case(m_recipe.title[i])]
  /\ m_result' = [called |-> TRUE, value |-> _match_query(m_recipe', m_term)]
  /\ UNCHANGED <<catalog_vars, serve_vars, walk, m_term>>

\* The same call with the i-th character of the k-th tag in the other case.
match_respelled_tag(k, i) ==
  /\ m_result.called
  /\ k \in 1..Len(m_recipe.tags)
  /\ i \in 1..Len(m_recipe.tags[k])
  /\ m_recipe' = [m_recipe EXCEPT !.tags[k][i] = other_case(m_recipe.tags[k][i])]
  /\ m_result' = [called |-> TRUE, value |-> _match_query(m_recipe', m_term)]
  /\ UNCHANGED <<catalog_vars, serve_vars, walk, m_term>>

MatchNext ==
  \/ match_call
  \/ \E i \in 1..MaxTermLen : match_respelled_term(i)
  \/ \E i \in 1..MaxTitleLen : match_respelled_title(i)
  \/ \E k \in 1..Len(m_recipe.tags), i \in 1..MaxTagLen : match_respelled_tag(k, i)

MatchSpec == MatchInit /\ [][MatchNext]_vars

-----------------------------------------------------------------------------
(* What the properties below compare the program with. *)

\* The catalog the import builds: the k-th seed recipe with the k-th id drawn.
Catalog0 == [k \in 1..NumSeed |-> Recipe(uuid_stream[k], SEED[k])]

\* a and b are the same letter, in the same case or not.
SameLetter(a, b) == a = b \/ other_case(a) = b \/ a = other_case(b)

\* t occurs in s as a contiguous run of characters, letter case ignored.
OccursIgnoringCase(t, s) ==
  \E i \in 0..(Len(s) - Len(t)) : \A k \in 1..Len(t) : SameLetter(s[i + k], t[k])

\* The term occurs in the recipe's title or in one of its tags.
Matches(r, t) ==
  \/ OccursIgnoringCase(t, r.title)
  \/ \E k \in 1..Len(r.tags) : OccursIgnoringCase(t, r.tags[k])

\* F: what a request with term q filters the catalog down to.
Filtered(q) ==
  IF q.is_none \/ q.value = <<>>
  THEN RECIPES
  ELSE SelectSeq(RECIPES, LAMBDA r : Matches(r, q.value))

\* The items at the 1-based places first..last of F, in order (none when last < first).
Places(F, first, last) == [k \in 1..(IF last >= first THEN last - first + 1 ELSE 0) |-> F[first + k - 1]]

\* The smaller of two numbers.
Least(a, b) == IF a <= b THEN a ELSE b

\* A valid list request has been handled.
ListHandled == request.op = "list" /\ valid_query(request.page, request.page_size)

-----------------------------------------------------------------------------
(* The claims. *)

\* C1: a valid list_recipes(q, page, page_size) answers total = N = len(F) and
\* items = the places (page-1)*page_size+1 .. min(page*page_size, N) of F, in
\* order, F being what q filters the catalog down to; page 2 of size 5 of the
\* unfiltered catalog is its 6th to 10th recipes, with total 11.
C1_PageIsSliceOfFiltered ==
  ListHandled =>
    LET F == Filtered(request.q)
        N == Len(F)
        first == (request.page - 1) * request.page_size + 1
        last == Least(request.page * request.page_size, N)
    IN  /\ response.status_code = 200
        /\ response.body.total = N
        /\ response.body.items = Places(F, first, last)
        /\ (request.q.is_none /\ request.page = 2 /\ request.page_size = 5) =>
             /\ response.body.total = 11
             /\ response.body.items =
                  <<RECIPES[6], RECIPES[7], RECIPES[8], RECIPES[9], RECIPES[10]>>

\* C1's case: page 2 of size 5 of the unfiltered catalog has been served.
C1_Witness ==
  /\ ListHandled
  /\ request.q.is_none /\ request.page = 2 /\ request.page_size = 5
  /\ Len(response.body.items) = 5
  /\ response.body.items[1].title = Seed06.title

\* C2: reading a listing page 1, 2, 3, ... with one page_size returns every
\* item of the filtered set exactly once and in order: what has been read so
\* far is the beginning of F, item for item, the counts of the pages add up to
\* it, and when the first empty page ends the reading it is all of F.
C2_PagesCoverFilteredOnce ==
  walk.state # "idle" =>
    LET F == Filtered(walk.q)
    IN  /\ Len(walk.items) <= Len(F)
        /\ walk.items = Places(F, 1, Len(walk.items))
        /\ \A i, j \in 1..Len(walk.items) : i # j => walk.items[i] # walk.items[j]
        /\ walk.count = Len(walk.items)
        /\ walk.state = "done" => walk.items = F /\ walk.count = Len(F)

\* C2's case: a listing of several pages has been read to its end.
C2_Witness ==
  /\ walk.state = "done"
  /\ walk.q = Some(TermE)
  /\ walk.page_size = 3
  /\ walk.page >= 3
  /\ walk.count >= 7

\* C3: for a non-empty q the listing is exactly the recipes in whose title or
\* tags q occurs, letter case ignored (the description is not searched), in
\* catalog order: total counts them, every item is one, and a first page that
\* holds them all is that sequence; "chicken" finds "Spicy Thai Basil Chicken"
\* and "Roasted Herb Chicken", total 2.
C3_FilterIsTitleOrTagMatch ==
  (ListHandled /\ ~request.q.is_none /\ request.q.value # <<>>) =>
    LET q == request.q.value
        hits == {k \in 1..Len(RECIPES) : Matches(RECIPES[k], q)}
        items == response.body.items
    IN  /\ response.body.total = Cardinality(hits)
        /\ \A i \in 1..Len(items) : \E k \in hits : items[i] = RECIPES[k]
        /\ (request.page = 1 /\ request.page_size >= Cardinality(hits)) =>
             /\ Len(items) = Cardinality(hits)
             /\ \A i, j \in 1..Len(items) : i < j =>
                  \E k, l \in hits : k < l /\ items[i] = RECIPES[k] /\ items[j] = RECIPES[l]
        /\ (q = TermChicken /\ request.page = 1 /\ request.page_size = 10) =>
             /\ response.body.total = 2
             /\ [i \in 1..Len(items) |-> items[i].title] = <<Seed02.title, Seed11.title>>
        /\ (q = TermBasil /\ request.page = 1 /\ request.page_size = 10) =>
             [i \in 1..Len(items) |-> items[i].title] = <<Seed02.title, Seed04.title>>

\* C3's case: the search for "chicken" has been served.
C3_Witness ==
  /\ ListHandled
  /\ request.q = Some(TermChicken) /\ request.page = 1 /\ request.page_size = 10
  /\ Len(response.body.items) = 2
  /\ matcher_calls = NumSeed

\* C4: get_recipe(r.id) of a recipe r of the catalog answers 200 with r itself.
C4_GetReturnsTheRecipe ==
  \A k \in 1..Len(RECIPES) :
    (request.op = "get" /\ request.recipe_id = RECIPES[k].id) =>
      response.status_code = 200 /\ response.body = RECIPES[k]

\* C4's case: the last recipe of the catalog has been fetched by its id.
C4_Witness ==
  /\ phase = "serving"
  /\ request.op = "get"
  /\ request.recipe_id = RECIPES[NumSeed].id
  /\ response.status_code = 200
  /\ response.body.title = Seed11.title

\* C5: once the catalog is built no two of its recipes share an id,
\* RECIPES_BY_ID has one entry per recipe, and the ids are, in every later
\* state, the ones drawn while the catalog was built.
C5_IdsUniqueAndStable ==
  /\ phase \in {"index", "serving"} =>
       /\ Len(RECIPES) = NumSeed
       /\ \A i, j \in 1..Len(RECIPES) : i # j => RECIPES[i].id # RECIPES[j].id
       /\ \A k \in 1..Len(RECIPES) : RECIPES[k].id = uuid_stream[k]
  /\ phase = "serving" =>
       /\ Cardinality(DOMAIN RECIPES_BY_ID) = Len(RECIPES)
       /\ DOMAIN RECIPES_BY_ID = {RECIPES[k].id : k \in 1..Len(RECIPES)}

\* C5's case: the catalog is built and indexed, and requests have been served.
C5_Witness ==
  /\ phase = "serving"
  /\ Cardinality(DOMAIN RECIPES_BY_ID) = 11
  /\ request.op = "get"
  /\ response.status_code = 200

\* C6: get_recipe of an id that no recipe of the catalog has, the empty string
\* included, answers 404 "Recipe not found", and the catalog is as it was built.
C6_UnknownIdIsNotFound ==
  (request.op = "get" /\ \A k \in 1..Len(RECIPES) : RECIPES[k].id # request.recipe_id) =>
    /\ response = [status_code |-> 404, body |-> [detail |-> "Recipe not found"]]
    /\ RECIPES = Catalog0
    /\ DOMAIN RECIPES_BY_ID = {Catalog0[k].id : k \in 1..NumSeed}
    /\ \A k \in 1..NumSeed : RECIPES_BY_ID[Catalog0[k].id] = Catalog0[k]

\* C6's case: the empty id has been asked for.
C6_Witness ==
  /\ request.op = "get"
  /\ request.recipe_id = ""
  /\ response.status_code = 404

\* C7: the catalog is built once, before any request, and no request changes
\* it: whenever a request has been handled the import is over, each seed
\* recipe has been built once, RECIPES and RECIPES_BY_ID are what the import
\* made them, and a list response is the page of that first catalog for the
\* request's (q, page, page_size) -- so the same for every such request,
\* whatever was handled before it.
C7_CatalogNeverChanges ==
  /\ request.op # "none" => phase = "serving"
  /\ phase = "serving" =>
       /\ uuid_calls = NumSeed
       /\ RECIPES = Catalog0
       /\ DOMAIN RECIPES_BY_ID = {Catalog0[k].id : k \in 1..NumSeed}
       /\ \A k \in 1..NumSeed : RECIPES_BY_ID[Catalog0[k].id] = Catalog0[k]
  /\ request.op = "list" =>
       response = list_recipes_response(Catalog0, request.q, request.page, request.page_size)

\* C7's case: a filtered listing has been served and the catalog is whole.
C7_Witness ==
  /\ phase = "serving"
  /\ request.op = "list"
  /\ request.q = Some(TermQuick)
  /\ response.status_code = 200
  /\ response.body.total = 3
  /\ Len(RECIPES) = 11

\* C8: with q absent or empty list_recipes never calls _match_query and
\* answers the requested slice of the whole catalog, total = its size.
C8_NoTermNoFilter ==
  (ListHandled /\ (request.q.is_none \/ request.q.value = <<>>)) =>
    /\ matcher_calls = 0
    /\ response.status_code = 200
    /\ response.body.total = Len(RECIPES)
    /\ response.body.items =
         Places(RECIPES, (request.page - 1) * request.page_size + 1,
                Least(request.page * request.page_size, Len(RECIPES)))

\* C8's case: q = "" has been served the second page of three recipes.
C8_Witness ==
  /\ ListHandled
  /\ request.q = Some(<<>>)
  /\ request.page = 2 /\ request.page_size = 3
  /\ Len(response.body.items) = 3
  /\ response.body.total = 11

\* C9: a valid request whose start offset (page-1)*page_size is at or past the
\* size N of the filtered set answers 200 with items = [] and total = N.
C9_PagePastEndIsEmpty ==
  (ListHandled /\ (request.page - 1) * request.page_size >= Len(Filtered(request.q))) =>
    /\ response.status_code = 200
    /\ response.body.items = <<>>
    /\ response.body.total = Len(Filtered(request.q))
    /\ response.body.page = request.page
    /\ response.body.page_size = request.page_size

\* C9's case: a page far past the end of a non-empty filtered set.
C9_Witness ==
  /\ ListHandled
  /\ request.page = FarPage
  /\ request.q = Some(TermChicken)
  /\ response.body.total = 2
  /\ response.body.items = <<>>

\* C10: _match_query answers the same for two spellings of the term, of the
\* title or of a tag that differ only in letter case: calling it again after
\* one letter has changed case returns what it returned before.
C10_MatchIgnoresCase == [][m_result.called => m_result' = m_result]_vars

\* Where C10 fails and where it does not: with no sigma in the term, the title
\* or the tags, before or after the change of case, the answer stays the same.
SigmaFree(s) == \A i \in 1..Len(s) : s[i] \notin {CapitalSigma, SmallSigma, FinalSigma}

NoSigma(r, t) == SigmaFree(t) /\ SigmaFree(r.title) /\ \A k \in 1..Len(r.tags) : SigmaFree(r.tags[k])

MatchIgnoresCaseWithoutSigma ==
  [][(m_result.called /\ NoSigma(m_recipe, m_term) /\ NoSigma(m_recipe', m_term')) =>
       m_result' = m_result]_vars

====
